---- MODULE Spec2Model ----
(***************************************************************************)
(* Trust-region refinement routines of RBFOpt (src/src/rbfopt_refinement.py)*)
(* as a state machine.  Floating-point values are modelled as exact         *)
(* rationals [num, den]; Euclidean distances and norms are kept exact by    *)
(* drawing the inputs from points whose distances are integers.             *)
(***************************************************************************)
EXTENDS Integers, Naturals, Sequences, FiniteSets, TLC

VARIABLES
    pc,          \* which routine ran last: "start", "inited", "updated", "candidate"
    settings,    \* RbfoptSettings fields read by the routines
    n,           \* dimension of the space
    k,           \* number of interpolation nodes
    node_pos,    \* node coordinates, a sequence of k points
    center,      \* centre of the trust region
    model_set,   \* indices returned by init_trust_region
    tr_radius,   \* current radius of the trust region (the driver's variable)
    init_radius, \* radius as returned by init_trust_region
    updates,     \* number of update_trust_region_radius calls so far
    call,        \* arguments and outcome of the last update_trust_region_radius call
    var_lower,   \* vector of variable lower bounds
    var_upper,   \* vector of variable upper bounds
    h,           \* linear coefficients of the model
    start_point, \* starting point of the descent
    gcp,         \* outcome of the last get_candidate_point call
    point,       \* the array handed to get_integer_candidate
    integer_vars, \* indices of the integer variables
    gic,         \* outcome of the last get_integer_candidate call
    node_val,    \* objective values at the nodes
    intercept,   \* intercept of the linear function that generates node_val
    lstsq_fails, \* whether np.linalg.lstsq raises LinAlgError on this input
    glm          \* outcome of the last get_linear_model call

vars == <<pc, settings, n, k, node_pos, center, model_set, tr_radius,
          init_radius, updates, call, var_lower, var_upper, h, start_point, gcp,
          point, integer_vars, gic, node_val, intercept, lstsq_fails,
          glm>>

\* The state of get_linear_model.
fit == <<node_val, intercept, lstsq_fails, glm>>

\* The state of get_integer_candidate.
rounding == <<point, integer_vars, gic>>

\* The arguments of get_candidate_point besides settings, n and tr_radius.
box == <<var_lower, var_upper, h, start_point>>

-----------------------------------------------------------------------------
(* Exact rational arithmetic standing for float arithmetic.                 *)

RECURSIVE GCD(_, _)
GCD(a, b) == IF b = 0 THEN a ELSE GCD(b, a % b)

Abs(x) == IF x < 0 THEN -x ELSE x

\* The rational p/q in lowest terms with positive denominator (q # 0).
Rat(p, q) ==
    LET g == GCD(Abs(p), Abs(q))
        s == IF q < 0 THEN -1 ELSE 1
    IN  [num |-> (s * p) \div g, den |-> (s * q) \div g]

RInt(i) == [num |-> i, den |-> 1]
RAdd(a, b) == Rat(a.num * b.den + b.num * a.den, a.den * b.den)
RSub(a, b) == Rat(a.num * b.den - b.num * a.den, a.den * b.den)
RMul(a, b) == Rat(a.num * b.num, a.den * b.den)
RDiv(a, b) == Rat(a.num * b.den, a.den * b.num)
RLe(a, b) == a.num * b.den <= b.num * a.den
RLt(a, b) == a.num * b.den < b.num * a.den
RGe(a, b) == RLe(b, a)
RGt(a, b) == RLt(b, a)
RMax(a, b) == IF RGt(b, a) THEN b ELSE a
RMin(a, b) == IF RLt(b, a) THEN b ELSE a
RFloor(a) == a.num \div a.den

Min(a, b) == IF b < a THEN b ELSE a

\* F(x) with x evaluated once, before F is applied.
With(x, F(_)) == CHOOSE y \in {F(v) : v \in {x}} : TRUE

\* Square root of a perfect square.
ISqrt(x) == CHOOSE r \in 0..x : r * r = x
IsSquare(x) == \E r \in 0..x : r * r = x

-----------------------------------------------------------------------------
(* Bounds of the model.                                                     *)

TestN == 3         \* the dimension n of the test suite, the largest modelled
MaxK == 5          \* largest number of nodes k
MaxCoord == 1      \* node coordinates are naturals with sum at most MaxCoord
MaxUpdates == 2    \* update_trust_region_radius calls per run
MaxDiff == 2       \* objective differences range over -MaxDiff..MaxDiff
MaxBox == 2        \* variable bounds lie in 0..MaxBox
MaxGrad == 4       \* gradient components range over -MaxGrad..MaxGrad
MaxRadius2 == 3    \* trust-region radii tried are 0, 1/2, ..., MaxRadius2/2
MaxHalf == 2       \* points to round have coordinates -MaxHalf/2, ..., MaxHalf/2

-----------------------------------------------------------------------------
(* init_trust_region                                                        *)

RECURSIVE SumTo(_, _)
SumTo(f, i) == IF i = 0 THEN 0 ELSE f[i] + SumTo(f, i - 1)

\* Squared Euclidean distance of two points of the same length.
SqDist(a, b) == SumTo([i \in 1..Len(a) |-> (a[i] - b[i]) * (a[i] - b[i])], Len(a))

\* ss.distance.cdist(np.atleast_2d(center), node_pos)[0]: the Euclidean
\* distance from the centre to every node.
cdist(c, nodes) == [i \in 1..Len(nodes) |-> RInt(ISqrt(SqDist(c, nodes[i])))]

\* np.lexsort((key,)): the indices of key in ascending order of key, a stable
\* sort, so that equal keys keep their index order.
\* RankOf of a sort that is not stable: equal keys in descending index order.
RankOf_Unstable(key) ==
    [i \in 1..Len(key) |->
        Cardinality({j \in 1..Len(key) :
            RLt(key[j], key[i]) \/ (key[j] = key[i] /\ j > i)}) + 1]

\* The position of every entry of key in the stable ascending order.
RankOf(key) ==
    [i \in 1..Len(key) |->
        Cardinality({j \in 1..Len(key) :
            RLt(key[j], key[i]) \/ (key[j] = key[i] /\ j < i)}) + 1]

OrderOfRank(rank) == [r \in DOMAIN rank |-> CHOOSE i \in DOMAIN rank : rank[i] = r]

lexsort(key) == OrderOfRank(RankOf(key))

\* a[idx]: the entries of a at the indices idx, in the order of idx.
Take(a, idx) == [r \in 1..Len(idx) |-> a[idx[r]]]

\* Linear interpolation in an ascending sequence at the virtual index
\* (m - 1) * q / 100.
Interpolate(sorted, q) ==
    LET m == Len(sorted)
        idx == RMul(RInt(m - 1), RDiv(q, RInt(100)))
        lo == RFloor(idx)
        hi == Min(lo + 1, m - 1)
        frac == RSub(idx, RInt(lo))
    IN  RAdd(sorted[lo + 1], RMul(RSub(sorted[hi + 1], sorted[lo + 1]), frac))

\* np.percentile(a, q) with the default linear interpolation; q is a rational
\* number of percent.
percentile(a, q) ==
    With(a, LAMBDA v : With(Take(v, lexsort(v)), LAMBDA sorted : Interpolate(sorted, q)))

num_to_keep(nn, kk) == Min(2 * nn + 1, kk)

\* The q handed to np.percentile: 0.25.
percentile_q == Rat(25, 100)

\* model_set[1:]
Tail1(s) == [r \in 1..(Len(s) - 1) |-> s[r + 1]]

\* model_set = dist_order[np.arange(num_to_keep)]
ModelSetOf(dist_order, keep) == [r \in 1..keep |-> dist_order[r]]

\* RadiusOf with the floor added to the percentile instead of bounding it.
RadiusOf_Sum(st, dist, mset) ==
    With(percentile(Take(dist, Tail1(mset)), percentile_q),
         LAMBDA p : RAdd(p, RMul(st.min_tr_radius, RInt(16))))

\* tr_radius = max(np.percentile(dist[0, model_set[1:]], 0.25),
\*                 settings.min_tr_radius * 2**4)
RadiusOf(st, dist, mset) ==
    With(percentile(Take(dist, Tail1(mset)), percentile_q),
         LAMBDA p : RMax(p, RMul(st.min_tr_radius, RInt(16))))

InitResult(st, dist, mset) ==
    [model_set |-> mset, tr_radius |-> RadiusOf(st, dist, mset)]

InitFromDist(st, nn, kk, dist) ==
    With(ModelSetOf(lexsort(dist), num_to_keep(nn, kk)),
         LAMBDA mset : InitResult(st, dist, mset))

\* init_trust_region(settings, n, k, node_pos, center); indices are 1-based.
init_trust_region(st, nn, kk, nodes, c) ==
    With(cdist(c, nodes), LAMBDA dist : InitFromDist(st, nn, kk, dist))

\* The assertions at the head of init_trust_region.
init_trust_region_asserts(nn, kk, nodes, c) ==
    /\ Len(nodes) = kk
    /\ kk >= 2
    /\ Len(c) = nn

-----------------------------------------------------------------------------
(* Inputs                                                                   *)

\* Points of dimension nn with natural coordinates of sum at most MaxCoord.
Pool(nn) == {p \in [1..nn -> 0..MaxCoord] : SumTo(p, nn) <= MaxCoord}

\* The points at an integer distance from c.
Around(nn, c) == {p \in Pool(nn) : IsSquare(SqDist(c, p))}

NoCall == [kind |-> "none"]

\* No candidate point is being computed.
NoBox ==
    /\ var_lower = <<>>
    /\ var_upper = <<>>
    /\ h = <<>>
    /\ start_point = <<>>
    /\ gcp = NoCall

\* No point is being rounded.
NoRounding ==
    /\ point = <<>>
    /\ integer_vars = {}
    /\ gic = NoCall

\* No linear model is being fitted.
NoFit ==
    /\ node_val = <<>>
    /\ intercept = RInt(0)
    /\ lstsq_fails = FALSE
    /\ glm = NoCall

BaseSettings ==
    [min_tr_radius |-> Rat(1, 1000), min_dist |-> Rat(1, 2),
     tr_acceptable_decrease_shrink |-> Rat(2, 10),
     tr_acceptable_decrease_enlarge |-> Rat(6, 10),
     tr_acceptable_decrease_move |-> Rat(1, 10)]

MinTrRadiusSet == {Rat(1, 1000), Rat(1, 8)}

\* A driver about to initialise a trust region on some node set.
InitNodes ==
    /\ pc = "start"
    /\ n \in 1..TestN
    /\ k \in 2..MaxK
    /\ center \in Pool(n)
    /\ node_pos \in [1..k -> Around(n, center)]
    /\ settings \in {[BaseSettings EXCEPT !.min_tr_radius = r] : r \in MinTrRadiusSet}
    /\ model_set = <<>>
    /\ tr_radius = RInt(0)
    /\ init_radius = RInt(0)
    /\ updates = 0
    /\ call = NoCall
    /\ NoBox
    /\ NoRounding
    /\ NoFit

InitTrustRegion ==
    /\ pc = "start"
    /\ init_trust_region_asserts(n, k, node_pos, center)
    /\ \E r \in {init_trust_region(settings, n, k, node_pos, center)} :
           /\ model_set' = r.model_set
           /\ tr_radius' = r.tr_radius
           /\ init_radius' = r.tr_radius
    /\ pc' = "inited"
    /\ UNCHANGED <<settings, n, k, node_pos, center, updates, call, box, gcp, rounding, fit>>

-----------------------------------------------------------------------------
(* update_trust_region_radius                                               *)

Finite(r) == [cls |-> "finite", val |-> r]

\* real_obj_diff / model_obj_diff under "from __future__ import division".
\* Between two Python floats a zero divisor raises ZeroDivisionError.  When
\* the divisor is a numpy.float64 (a subclass of float, as np.dot returns)
\* numpy divides: a zero divisor gives inf, -inf or nan and a warning only
\* (the signs are those of a divisor +0.0).
TrueDivide(real, model, model_type) ==
    IF model.num # 0 THEN Finite(RDiv(real, model))
    ELSE IF model_type = "float" THEN [cls |-> "ZeroDivisionError"]
    ELSE IF real.num > 0 THEN [cls |-> "inf"]
    ELSE IF real.num < 0 THEN [cls |-> "-inf"]
    ELSE [cls |-> "nan"]

\* decrease <= threshold; every comparison with nan is false.
FloatLe(d, thr) ==
    CASE d.cls = "finite" -> RLe(d.val, thr)
      [] d.cls = "-inf" -> TRUE
      [] OTHER -> FALSE

\* decrease >= threshold
FloatGe(d, thr) ==
    CASE d.cls = "finite" -> RGe(d.val, thr)
      [] d.cls = "inf" -> TRUE
      [] OTHER -> FALSE

\* NewRadius with the enlarge test made before the shrink test.
NewRadius_EnlargeFirst(st, radius, decrease) ==
    IF FloatGe(decrease, st.tr_acceptable_decrease_enlarge)
    THEN RMul(radius, RInt(2))
    ELSE IF FloatLe(decrease, st.tr_acceptable_decrease_shrink)
    THEN RMul(radius, Rat(1, 2))
    ELSE radius

\* NewRadius shrinking to a quarter instead of a half.
NewRadius_Quarter(st, radius, decrease) ==
    IF FloatLe(decrease, st.tr_acceptable_decrease_shrink)
    THEN RMul(radius, Rat(1, 4))
    ELSE IF FloatGe(decrease, st.tr_acceptable_decrease_enlarge)
    THEN RMul(radius, RInt(2))
    ELSE radius

\* NewRadius without the enlarge branch.
NewRadius_NoEnlarge(st, radius, decrease) ==
    IF FloatLe(decrease, st.tr_acceptable_decrease_shrink)
    THEN RMul(radius, Rat(1, 2))
    ELSE radius

\* The radius branch of update_trust_region_radius.
NewRadius(st, radius, decrease) ==
    IF FloatLe(decrease, st.tr_acceptable_decrease_shrink)
    THEN RMul(radius, Rat(1, 2))
    ELSE IF FloatGe(decrease, st.tr_acceptable_decrease_enlarge)
    THEN RMul(radius, RInt(2))
    ELSE radius

\* Accept tied to the enlarge branch instead of the move threshold.
Accept_WhenEnlarged(st, decrease) == FloatGe(decrease, st.tr_acceptable_decrease_enlarge)

\* The acceptance flag of update_trust_region_radius.
Accept(st, decrease) == FloatGe(decrease, st.tr_acceptable_decrease_move)

UpdateReturn(st, radius, decrease) ==
    IF decrease.cls = "ZeroDivisionError"
    THEN [raised |-> "ZeroDivisionError", decrease |-> decrease,
          tr_radius |-> radius, accept |-> FALSE]
    ELSE [raised |-> "none", decrease |-> decrease,
          tr_radius |-> NewRadius(st, radius, decrease),
          accept |-> Accept(st, decrease)]

\* update_trust_region_radius(settings, tr_radius, model_obj_diff,
\* real_obj_diff); model_type is the Python type of model_obj_diff.  When it
\* raises, tr_radius and accept are not returned (the fields keep the inputs).
update_trust_region_radius(st, radius, model, real, model_type) ==
    IF RLt(radius, RInt(0))
    THEN [raised |-> "AssertionError", decrease |-> [cls |-> "none"],
          tr_radius |-> radius, accept |-> FALSE]
    ELSE With(TrueDivide(real, model, model_type),
              LAMBDA d : UpdateReturn(st, radius, d))

FloatTypes == {"float", "numpy.float64"}

\* The threshold triples (shrink, enlarge, move) tried: the ordering
\* shrink < enlarge with move below both, move above both, and
\* shrink above enlarge.
ThresholdSet ==
    {<<Rat(2, 10), Rat(6, 10), Rat(1, 10)>>,
     <<Rat(2, 10), Rat(6, 10), Rat(1, 1)>>,
     <<Rat(6, 10), Rat(2, 10), Rat(1, 10)>>}

SettingsSet ==
    {[BaseSettings EXCEPT !.min_tr_radius = r,
                             !.tr_acceptable_decrease_shrink = t[1],
                             !.tr_acceptable_decrease_enlarge = t[2],
                             !.tr_acceptable_decrease_move = t[3]] :
        r \in MinTrRadiusSet, t \in ThresholdSet}

\* A driver about to refine around a centre, on the smallest node sets
\* init_trust_region accepts.
Init ==
    /\ pc = "start"
    /\ n = 1
    /\ k = 2
    /\ center \in Pool(n)
    /\ node_pos \in [1..k -> Around(n, center)]
    /\ settings \in SettingsSet
    /\ model_set = <<>>
    /\ tr_radius = RInt(0)
    /\ init_radius = RInt(0)
    /\ updates = 0
    /\ call = NoCall
    /\ NoBox
    /\ NoRounding
    /\ NoFit

\* The driver calls update_trust_region_radius on its current radius and
\* keeps the radius returned; an exception leaves its radius as it was.
UpdateTrustRegionRadius ==
    /\ pc \in {"inited", "updated"}
    /\ updates < MaxUpdates
    /\ \E model \in -MaxDiff..MaxDiff, real \in -MaxDiff..MaxDiff, ty \in FloatTypes :
         \E r \in {update_trust_region_radius(settings, tr_radius, RInt(model),
                                              RInt(real), ty)} :
           /\ call' = [kind |-> "update", tr_radius |-> tr_radius,
                       model_obj_diff |-> RInt(model), real_obj_diff |-> RInt(real),
                       model_type |-> ty, raised |-> r.raised,
                       decrease |-> r.decrease,
                       new_radius |-> r.tr_radius, accept |-> r.accept]
           /\ tr_radius' = r.tr_radius
    /\ updates' = updates + 1
    /\ pc' = "updated"
    /\ UNCHANGED <<settings, n, k, node_pos, center, model_set, init_radius, box, gcp, rounding, fit>>

Next == InitTrustRegion \/ UpdateTrustRegionRadius

Spec == Init /\ [][Next]_vars

NextInit == InitTrustRegion

SpecInit == InitNodes /\ [][NextInit]_vars

-----------------------------------------------------------------------------
(* get_candidate_point                                                      *)

\* np.dot(a, b) of two vectors of rationals.
RECURSIVE DotTo(_, _, _)
DotTo(a, b, i) == IF i = 0 THEN RInt(0) ELSE RAdd(RMul(a[i], b[i]), DotTo(a, b, i - 1))
dot(a, b) == DotTo(a, b, Len(a))

\* np.sqrt(np.dot(h, h))
norm(g) == RInt(ISqrt(dot(g, g).num))

\* The smallest element of a non-empty finite set of rationals.
RMinOf(S) == CHOOSE x \in S : \A y \in S : RLe(x, y)

\* clip without the upper bound.
clip_LowerOnly(x, lo, hi) == RMax(x, lo)

\* np.clip(x, lo, hi) of one coordinate: minimum(maximum(x, lo), hi).
clip(x, lo, hi) == RMin(RMax(x, lo), hi)

\* A step along +h instead of -h.
StepPoint_Ascent(start, t, g) == [i \in 1..Len(start) |-> RAdd(start[i], RMul(t, g[i]))]

\* start_point - max_t * h
StepPoint(start, t, g) == [i \in 1..Len(start) |-> RSub(start[i], RMul(t, g[i]))]

\* The coordinates with h > 0 that are at least min_dist above var_lower.
LocLower(st, lower, g, start) ==
    {i \in 1..Len(g) : RGt(g[i], RInt(0)) /\ RGe(start[i], RAdd(lower[i], st.min_dist))}

\* The coordinates with h < 0 that are at least min_dist below var_upper.
LocUpper(st, upper, g, start) ==
    {i \in 1..Len(g) : RLt(g[i], RInt(0)) /\ RLe(start[i], RSub(upper[i], st.min_dist))}

\* max_t = min(max_t, np.min((start_point[loc] - bound[loc]) / h[loc])) when
\* loc is not empty.
LimitStep(t, loc, bound, g, start) ==
    IF loc = {} THEN t
    ELSE RMin(t, RMinOf({RDiv(RSub(start[i], bound[i]), g[i]) : i \in loc}))

\* MaxT with the radius not divided by the norm of the gradient.
MaxT_NoNorm(st, lower, upper, g, start, radius) ==
    With(LimitStep(radius, LocLower(st, lower, g, start), lower, g, start),
         LAMBDA t : LimitStep(t, LocUpper(st, upper, g, start), upper, g, start))

\* The step length of get_candidate_point.
MaxT(st, lower, upper, g, start, radius) ==
    With(LimitStep(RDiv(radius, norm(g)), LocLower(st, lower, g, start), lower, g, start),
         LAMBDA t : LimitStep(t, LocUpper(st, upper, g, start), upper, g, start))

Candidate(lower, upper, start, t, g) ==
    With(StepPoint(start, t, g),
         LAMBDA p : [i \in 1..Len(p) |-> clip(p[i], lower[i], upper[i])])

PointSub(a, b) == [i \in 1..Len(a) |-> RSub(a[i], b[i])]

CandidateReturn(g, start, t, cand) ==
    [kind |-> "candidate", max_t |-> t, candidate |-> cand,
     model_delta |-> dot(g, PointSub(start, cand)), grad_norm |-> norm(g)]

\* The assertions at the head of get_candidate_point.
get_candidate_point_asserts(nn, lower, upper, g, start, radius) ==
    /\ Len(lower) = nn
    /\ Len(upper) = nn
    /\ Len(start) = nn
    /\ Len(g) = nn
    /\ RGe(radius, RInt(0))

\* A float that is not a number.
NaN == [cls |-> "nan"]

\* max_t * h[i] for a step length that is inf or nan: nan when h[i] is 0 or
\* max_t is nan, else an infinity of the sign of the product.
InfTimes(t, x) ==
    IF t.cls = "nan" \/ x.num = 0 THEN NaN
    ELSE IF (t.cls = "inf") = (x.num > 0) THEN [cls |-> "inf"] ELSE [cls |-> "-inf"]

\* np.clip(start_point[i] - p, lo, hi) for a product p that is nan or
\* infinite: nan passes through np.clip, an infinity is clipped to a bound.
ClipMinusNaN(x, p, lo, hi) ==
    IF p.cls = "nan" THEN NaN ELSE IF p.cls = "inf" THEN lo ELSE hi

\* get_candidate_point for h = 0.  np.sqrt(np.dot(h, h)) is a numpy.float64
\* zero, so tr_radius / 0 is inf (nan for tr_radius = 0) and raises nothing;
\* both loc masks are empty, so max_t keeps that value; max_t * h is nan in
\* every coordinate, and so are the candidate and np.dot(h, start - candidate).
ZeroGradientReturn(st, lower, upper, g, start, radius) ==
    With(LimitStep(LimitStep(TrueDivide(radius, norm(g), "numpy.float64"),
                             LocLower(st, lower, g, start), lower, g, start),
                   LocUpper(st, upper, g, start), upper, g, start),
         LAMBDA t :
            [kind |-> "candidate", max_t |-> t,
             candidate |-> [i \in 1..Len(start) |->
                 ClipMinusNaN(start[i], InfTimes(t, g[i]), lower[i], upper[i])],
             model_delta |-> NaN, grad_norm |-> norm(g)])

\* get_candidate_point(settings, n, k, var_lower, var_upper, h, start_point,
\* tr_radius).
get_candidate_point(st, lower, upper, g, start, radius) ==
    IF norm(g).num = 0
    THEN ZeroGradientReturn(st, lower, upper, g, start, radius)
    ELSE With(MaxT(st, lower, upper, g, start, radius),
              LAMBDA t : With(Candidate(lower, upper, start, t, g),
                              LAMBDA cand : CandidateReturn(g, start, t, cand)))

\* Vectors of dimension nn with integer components in S, as rationals.
Vectors(nn, S) == {[i \in 1..nn |-> RInt(v[i])] : v \in [1..nn -> S]}

MinDistSet == {RInt(0), RInt(1)}

RadiusSet == {Rat(i, 2) : i \in 0..MaxRadius2}

\* A driver about to compute a candidate in dimension 1 or 2: bounds with
\* var_lower <= var_upper, a start point inside or next to the box, and a
\* gradient of integer norm (the zero gradient among them).
InitCand ==
    /\ pc = "start"
    /\ n \in {1, 2}
    /\ k = 2
    /\ node_pos = <<>>
    /\ center = <<>>
    /\ settings \in {[BaseSettings EXCEPT !.min_dist = d] : d \in MinDistSet}
    /\ model_set = <<>>
    /\ tr_radius \in RadiusSet
    /\ init_radius = RInt(0)
    /\ updates = 0
    /\ call = NoCall
    /\ var_lower \in Vectors(n, 0..1)
    /\ var_upper \in {u \in Vectors(n, 0..MaxBox) : \A i \in 1..n : RLe(var_lower[i], u[i])}
    /\ start_point \in Vectors(n, (-1)..(MaxBox + 1))
    /\ h \in {g \in Vectors(n, (-MaxGrad)..MaxGrad) : IsSquare(dot(g, g).num)}
    /\ gcp = NoCall
    /\ NoRounding
    /\ NoFit

GetCandidatePoint ==
    /\ pc = "start"
    /\ get_candidate_point_asserts(n, var_lower, var_upper, h, start_point, tr_radius)
    /\ gcp' = get_candidate_point(settings, var_lower, var_upper, h, start_point, tr_radius)
    /\ pc' = "candidate"
    /\ UNCHANGED <<settings, n, k, node_pos, center, model_set, tr_radius,
                   init_radius, updates, call, box, rounding, fit>>

NextCand == GetCandidatePoint

SpecCand == InitCand /\ [][NextCand]_vars

-----------------------------------------------------------------------------
(* update_trust_region_radius called on any radius                          *)

\* A caller of update_trust_region_radius with a radius of its own: zero,
\* positive, or negative (which the assertion rejects).
InitUpdate ==
    /\ pc = "inited"
    /\ n = 1
    /\ k = 2
    /\ center = <<>>
    /\ node_pos = <<>>
    /\ settings \in SettingsSet
    /\ model_set = <<>>
    /\ tr_radius \in RadiusSet \cup {Rat(-1, 2)}
    /\ init_radius = tr_radius
    /\ updates = 0
    /\ call = NoCall
    /\ NoBox
    /\ NoRounding
    /\ NoFit

NextUpdate == UpdateTrustRegionRadius

SpecUpdate == InitUpdate /\ [][NextUpdate]_vars

-----------------------------------------------------------------------------
(* get_integer_candidate                                                    *)

\* np.floor and np.ceil of a rational.
floor(x) == RInt(RFloor(x))
ceil(x) == RInt(-RFloor(Rat(-x.num, x.den)))

\* RoundCoord rounding up also for a zero gradient component.
RoundCoord_Strict(gi, x) == IF RGt(gi, RInt(0)) THEN floor(x) ELSE ceil(x)

\* np.where(h >= 0, np.floor(point), np.ceil(point)) in one coordinate.
RoundCoord(gi, x) == IF RGe(gi, RInt(0)) THEN floor(x) ELSE ceil(x)

\* Rounded rounding every coordinate, not only those of integer_vars.
Rounded_All(g, pt, iv) == [i \in 1..Len(pt) |-> RoundCoord(g[i], pt[i])]

\* rounded = np.copy(point); rounded[integer_vars] = np.where(...)
Rounded(g, pt, iv) ==
    [i \in 1..Len(pt) |-> IF i \in iv THEN RoundCoord(g[i], pt[i]) ELSE pt[i]]

\* The assertions at the head of get_integer_candidate.
get_integer_candidate_asserts(nn, g, pt) ==
    /\ Len(pt) = nn
    /\ Len(g) = nn

\* get_integer_candidate(settings, n, k, h, point, integer_vars): the pair
\* returned and, as point, the argument array after the call (rounded is a
\* copy, so the argument keeps its contents).
get_integer_candidate(g, pt, iv) ==
    With(Rounded(g, pt, iv),
         LAMBDA rounded :
            [kind |-> "rounded", arg |-> pt, rounded |-> rounded,
             model_delta |-> dot(g, PointSub(pt, rounded)), point |-> pt])

\* The coordinates tried: multiples of 1/2.
Halves == {Rat(i, 2) : i \in (-MaxHalf)..MaxHalf}

\* The gradient components tried: negative, zero and positive.
RoundGrads == {-2, 0, 1}

\* A driver about to round a point that lies within the bounds.
InitRound ==
    /\ pc = "start"
    /\ n \in {1, 2}
    /\ k = 2
    /\ node_pos = <<>>
    /\ center = <<>>
    /\ settings = BaseSettings
    /\ model_set = <<>>
    /\ tr_radius = RInt(0)
    /\ init_radius = RInt(0)
    /\ updates = 0
    /\ call = NoCall
    /\ var_lower \in [1..n -> Halves]
    /\ point \in {q \in [1..n -> Halves] : \A i \in 1..n : RLe(var_lower[i], q[i])}
    /\ var_upper \in {u \in [1..n -> Halves] : \A i \in 1..n : RLe(point[i], u[i])}
    /\ h \in Vectors(n, RoundGrads)
    /\ start_point = <<>>
    /\ gcp = NoCall
    /\ integer_vars \in SUBSET (1..n)
    /\ gic = NoCall
    /\ NoFit

GetIntegerCandidate ==
    /\ pc = "start"
    /\ get_integer_candidate_asserts(n, h, point)
    /\ \E r \in {get_integer_candidate(h, point, integer_vars)} :
         /\ gic' = r
         /\ point' = r.point
    /\ pc' = "rounded"
    /\ UNCHANGED <<settings, n, k, node_pos, center, model_set, tr_radius,
                   init_radius, updates, call, box, gcp, integer_vars, fit>>

NextRound == GetIntegerCandidate

SpecRound == InitRound /\ [][NextRound]_vars

-----------------------------------------------------------------------------
(* get_linear_model                                                         *)

VecScale(c, v) == [i \in 1..Len(v) |-> RMul(c, v[i])]
VecAdd(u, v) == [i \in 1..Len(u) |-> RAdd(u[i], v[i])]
ZeroVec(m) == [i \in 1..m |-> RInt(0)]

\* d[1] * vs[1] + ... + d[i] * vs[i], vectors of length m.
RECURSIVE LinCombTo(_, _, _, _)
LinCombTo(d, vs, i, m) ==
    IF i = 0 THEN ZeroVec(m)
    ELSE VecAdd(VecScale(d[i], vs[i]), LinCombTo(d, vs, i - 1, m))

\* One step of the column-by-column construction of the pseudoinverse: P is
\* the pseudoinverse of the first j - 1 columns, a the j-th column, d = P a.
PinvStep(cols, j, P, a, d) ==
    With(PointSub(a, LinCombTo(d, cols, j - 1, Len(a))),
         LAMBDA c :
            With(IF dot(c, c).num # 0
                 THEN VecScale(RDiv(RInt(1), dot(c, c)), c)
                 ELSE VecScale(RDiv(RInt(1), RAdd(RInt(1), dot(d, d))),
                               LinCombTo(d, P, j - 1, Len(a))),
                 LAMBDA row :
                    [i \in 1..j |->
                        IF i = j THEN row
                        ELSE PointSub(P[i], VecScale(d[i], row))]))

\* The Moore-Penrose pseudoinverse of the matrix with the first j columns of
\* cols, as a sequence of j rows.
RECURSIVE Pinv(_, _)
Pinv(cols, j) ==
    IF j = 1
    THEN IF dot(cols[1], cols[1]).num = 0 THEN <<ZeroVec(Len(cols[1]))>>
         ELSE <<VecScale(RDiv(RInt(1), dot(cols[1], cols[1])), cols[1])>>
    ELSE With(Pinv(cols, j - 1),
              LAMBDA P :
                 With([i \in 1..(j - 1) |-> dot(P[i], cols[j])],
                      LAMBDA d : PinvStep(cols, j, P, cols[j], d)))

\* The columns of a matrix given by its rows.
Columns(mat) == [c \in 1..Len(mat[1]) |-> [r \in 1..Len(mat) |-> mat[r][c]]]

\* np.linalg.lstsq(a, y)[0] when it returns: the least-squares solution of
\* smallest norm, that is pinv(a) y.
lstsq(a, y) ==
    With(Pinv(Columns(a), Len(a[1])),
         LAMBDA P : [i \in 1..Len(P) |-> dot(P[i], y)])

\* np.hstack((node_pos[model_set], np.ones((model_size, 1))))
lstsq_mat(nodes, mset) ==
    [r \in 1..Len(mset) |->
        [c \in 1..(Len(nodes[mset[r]]) + 1) |->
            IF c <= Len(nodes[mset[r]]) THEN RInt(nodes[mset[r]][c]) ELSE RInt(1)]]

\* The names bound at module level: the __future__ features, the imported
\* modules and the functions of the module.
ModuleGlobals ==
    {"print_function", "division", "absolute_import", "np", "ss", "config",
     "RbfoptSettings", "init_trust_region", "get_linear_model",
     "get_candidate_point", "get_integer_candidate",
     "update_trust_region_radius"}

\* The exception that leaves the except clause: it prints to sys.stderr
\* before it re-raises, and looking up a name that is not bound raises
\* NameError.
HandlerRaises(e) == IF "sys" \in ModuleGlobals THEN e ELSE "NameError"

\* Coefficients taking the intercept from the first component.
Coefficients_InterceptFirst(x, nn) ==
    [h |-> [i \in 1..nn |-> x[i + 1]], b |-> x[1]]

\* h = x[:n]; b = x[-1]
Coefficients(x, nn) ==
    [h |-> [i \in 1..Min(nn, Len(x)) |-> x[i]], b |-> x[Len(x)]]

\* The assertions at the head of get_linear_model.
get_linear_model_asserts(kk, nodes, vals) ==
    /\ Len(nodes) = kk
    /\ Len(vals) = kk

\* get_linear_model(settings, n, k, node_pos, node_val, model_set); fails
\* tells whether np.linalg.lstsq raises LinAlgError.
get_linear_model(nn, nodes, vals, mset, fails) ==
    IF fails
    THEN [kind |-> "linear_model", raised |-> HandlerRaises("LinAlgError"),
          returned |-> FALSE]
    ELSE With(lstsq(lstsq_mat(nodes, mset), Take(vals, mset)),
              LAMBDA x :
                 With(Coefficients(x, nn),
                      LAMBDA hb :
                         [kind |-> "linear_model", raised |-> "none",
                          returned |-> TRUE, h |-> hb.h, b |-> hb.b]))

\* np.arange(m), as node indices.
arange(m) == [i \in 1..m |-> i]

\* The slopes and intercepts of the generating linear functions.
FitGrads == {-1, 0, 2}
FitIntercepts == {RInt(-1), RInt(2)}

\* A driver about to fit a linear model in dimension 1 or 2: the node values
\* are those of a linear function, the last node possibly off by one; the
\* model set is all nodes or all but the last.
InitFit ==
    /\ pc = "start"
    /\ n \in {1, 2}
    /\ k \in 1..(n + 2)
    /\ node_pos \in [1..k -> Pool(n)]
    /\ center = <<>>
    /\ settings = BaseSettings
    /\ model_set \in {arange(m) : m \in {k, k - 1} \ {0}}
    /\ tr_radius = RInt(0)
    /\ init_radius = RInt(0)
    /\ updates = 0
    /\ call = NoCall
    /\ var_lower = <<>>
    /\ var_upper = <<>>
    /\ start_point = <<>>
    /\ gcp = NoCall
    /\ h \in Vectors(n, FitGrads)
    /\ intercept \in FitIntercepts
    /\ \E err \in {0, 1} :
         node_val = [j \in 1..k |->
            RAdd(RAdd(dot(h, [i \in 1..n |-> RInt(node_pos[j][i])]), intercept),
                 RInt(IF j = k THEN err ELSE 0))]
    /\ lstsq_fails \in BOOLEAN
    /\ glm = NoCall
    /\ NoRounding

GetLinearModel ==
    /\ pc = "start"
    /\ get_linear_model_asserts(k, node_pos, node_val)
    /\ glm' = get_linear_model(n, node_pos, node_val, model_set, lstsq_fails)
    /\ pc' = "fitted"
    /\ UNCHANGED <<settings, n, k, node_pos, center, model_set, tr_radius,
                   init_radius, updates, call, box, gcp, rounding, node_val,
                   intercept, lstsq_fails>>

NextFit == GetLinearModel

SpecFit == InitFit /\ [][NextFit]_vars

-----------------------------------------------------------------------------
(* Properties of update_trust_region_radius                                 *)

Half(r) == RMul(r, Rat(1, 2))
Twice(r) == RMul(r, RInt(2))
RadiusFloor == RMul(settings.min_tr_radius, RInt(16))

RECURSIVE Pow2(_)
Pow2(j) == IF j = 0 THEN 1 ELSE 2 * Pow2(j - 1)

\* The last call was update_trust_region_radius with model_obj_diff # 0.
UpdatedNonZero == pc = "updated" /\ call.model_obj_diff.num # 0

\* The exact ratio real_obj_diff / model_obj_diff of the last call.
CallRatio == RDiv(call.real_obj_diff, call.model_obj_diff)

\* C1: after update_trust_region_radius with tr_radius >= 0 and
\* model_obj_diff # 0 the new radius is tr_radius / 2 if the ratio
\* real_obj_diff / model_obj_diff is <= the shrink threshold, otherwise
\* tr_radius * 2 if the ratio is >= the enlarge threshold, otherwise tr_radius;
\* the shrink test comes first, and the new radius is one of r/2, r, 2r.
C1_RadiusBranches ==
    UpdatedNonZero =>
        /\ call.raised = "none"
        /\ call.decrease = Finite(CallRatio)
        /\ call.new_radius =
             IF RLe(CallRatio, settings.tr_acceptable_decrease_shrink)
             THEN Half(call.tr_radius)
             ELSE IF RGe(CallRatio, settings.tr_acceptable_decrease_enlarge)
             THEN Twice(call.tr_radius)
             ELSE call.tr_radius
        /\ call.new_radius \in {Half(call.tr_radius), call.tr_radius, Twice(call.tr_radius)}
        /\ tr_radius = call.new_radius

\* C1 witness: a call whose ratio passes both the shrink and the enlarge
\* test, and halves a positive radius.
C1_Witness ==
    /\ UpdatedNonZero
    /\ RLe(CallRatio, settings.tr_acceptable_decrease_shrink)
    /\ RGe(CallRatio, settings.tr_acceptable_decrease_enlarge)
    /\ RGt(call.tr_radius, RInt(0))
    /\ tr_radius = Half(call.tr_radius)

\* C2: the acceptance flag is true iff real_obj_diff / model_obj_diff >= the
\* move threshold, whichever radius branch was taken.
C2_AcceptIffMove ==
    UpdatedNonZero =>
        (call.accept <=> RGe(CallRatio, settings.tr_acceptable_decrease_move))

\* C2 witness: a step accepted while the (positive) radius is shrunk.
C2_Witness ==
    /\ UpdatedNonZero
    /\ call.accept
    /\ RGt(call.tr_radius, RInt(0))
    /\ call.new_radius = Half(call.tr_radius)

\* C2, the other combinations the claim names: accepted with the radius
\* kept, and rejected with the radius shrunk.
C2_AcceptedKept ==
    UpdatedNonZero /\ call.accept /\ RGt(call.tr_radius, RInt(0))
        /\ call.new_radius = call.tr_radius

C2_RejectedShrunk ==
    UpdatedNonZero /\ ~call.accept /\ RGt(call.tr_radius, RInt(0))
        /\ call.new_radius = Half(call.tr_radius)

\* C3: with model_obj_diff = 0 update_trust_region_radius raises and returns
\* no radius, for every real_obj_diff and numeric type; the ratio is never
\* nan or infinite.
C3_ZeroDiffRaises ==
    (pc = "updated" /\ call.model_obj_diff.num = 0) =>
        /\ call.raised = "ZeroDivisionError"
        /\ call.decrease.cls \notin {"inf", "-inf", "nan"}
        /\ tr_radius = call.tr_radius

\* C4 as claimed: after init_trust_region and any number of updates the
\* radius is at least min_tr_radius * 16.
C4_RadiusFloor ==
    pc \in {"inited", "updated"} => RGe(tr_radius, RadiusFloor)

\* C4 as amended: the radius returned by init_trust_region is at least
\* min_tr_radius * 16, and after j updates the radius is at least
\* min_tr_radius * 16 / 2^j.
C4_RadiusFloorHalved ==
    pc \in {"inited", "updated"} =>
        /\ RGe(init_radius, RadiusFloor)
        /\ RGe(RMul(tr_radius, RInt(Pow2(updates))), RadiusFloor)

\* C4 witness: a radius shrunk below min_tr_radius * 16.
C4_Witness ==
    /\ pc = "updated"
    /\ call.new_radius = Half(call.tr_radius)
    /\ RLt(tr_radius, RadiusFloor)

-----------------------------------------------------------------------------
(* Properties of init_trust_region                                          *)

\* Squared distance from the centre to node i.
CenterSqDist(i) == SqDist(center, node_pos[i])

Selected == {model_set[r] : r \in 1..Len(model_set)}

\* Distances from the centre to the selected nodes except the first.
RestDist == [r \in 1..(Len(model_set) - 1) |-> RInt(ISqrt(CenterSqDist(model_set[r + 1])))]

\* The largest element of a non-empty finite set of integers.
MaxOf(S) == With(S, LAMBDA v : CHOOSE d \in v : \A e \in v : e <= d)

\* Largest squared distance between two nodes.
MaxPairSqDist == MaxOf({SqDist(node_pos[i], node_pos[j]) : i, j \in 1..k})

CenterIsNode == \E i \in 1..k : node_pos[i] = center

\* r * r <= d for a rational r >= 0 and an integer d.
SquareLe(r, d) == r.num * r.num <= d * r.den * r.den

C6_ModelSetSizeOfTest ==
    (pc = "inited" /\ n = 3 /\ k \in 2..9 /\ center = node_pos[k]) =>
        Len(model_set) = Min(k, n + 1)

\* C7: the radius is max(P, min_tr_radius * 16) with P the 25th percentile
\* of the distances from the centre to the selected nodes but the closest.
C7_RadiusIsQuartile ==
    pc = "inited" =>
        tr_radius = RMax(percentile(RestDist, RInt(25)), RadiusFloor)

\* C8 as claimed: with the centre one of the nodes, the radius is at most
\* the largest distance between two nodes.
C8_RadiusAtMostMaxDist ==
    (pc = "inited" /\ CenterIsNode) => SquareLe(tr_radius, MaxPairSqDist)

\* C8 as amended: with the centre one of the nodes, the radius is at most
\* the larger of the largest distance between two nodes and
\* min_tr_radius * 16.
C8_RadiusAtMostMaxDistOrFloor ==
    (pc = "inited" /\ CenterIsNode) =>
        \/ SquareLe(tr_radius, MaxPairSqDist)
        \/ RLe(tr_radius, RadiusFloor)

\* C8 witness: the centre is a node and the radius, above the floor, equals
\* the largest distance between two nodes.
C8_Witness ==
    /\ pc = "inited"
    /\ CenterIsNode
    /\ k >= 3
    /\ RGt(tr_radius, RadiusFloor)
    /\ tr_radius.num * tr_radius.num = MaxPairSqDist * tr_radius.den * tr_radius.den

-----------------------------------------------------------------------------
(* Properties of get_candidate_point                                        *)

\* The point start_point - max_t * h before it is clipped.
Unclipped == [i \in 1..n |-> RSub(start_point[i], RMul(gcp.max_t, h[i]))]

\* The gradient is not zero.
GradNonZero == dot(h, h).num # 0

StartInBox ==
    \A j \in 1..n : RLe(var_lower[j], start_point[j]) /\ RLe(start_point[j], var_upper[j])

\* C9: for a non-zero gradient, a radius >= 0, any start point and bounds
\* with var_lower <= var_upper, every coordinate of the candidate lies
\* between its bounds.
C9_CandidateInBounds ==
    (pc = "candidate" /\ GradNonZero) =>
        \A j \in 1..n : /\ RLe(var_lower[j], gcp.candidate[j])
                        /\ RLe(gcp.candidate[j], var_upper[j])

\* C9 witness: a candidate whose unclipped point lies above an upper bound
\* in some coordinate, from a start point inside the box.
C9_Witness ==
    /\ pc = "candidate"
    /\ GradNonZero
    /\ StartInBox
    /\ \E j \in 1..n : RGt(Unclipped[j], var_upper[j])

\* C10: for var_lower <= start_point <= var_upper, a non-zero gradient,
\* radius > 0 and min_dist >= 0, the candidate does not increase the linear
\* model: h.start >= h.candidate, the returned model_delta is
\* h.(start - candidate) >= 0, and the step length is not negative.
C10_Descent ==
    (pc = "candidate" /\ GradNonZero /\ StartInBox /\ RGt(tr_radius, RInt(0))) =>
        /\ RGe(dot(h, start_point), dot(h, gcp.candidate))
        /\ gcp.model_delta = RSub(dot(h, start_point), dot(h, gcp.candidate))
        /\ RGe(gcp.model_delta, RInt(0))
        /\ RGe(gcp.max_t, RInt(0))

\* C10 witness: a step cut short by a bound, clipped in another coordinate,
\* that still decreases the model.
C10_Witness ==
    /\ pc = "candidate"
    /\ GradNonZero
    /\ StartInBox
    /\ RGt(tr_radius, RInt(0))
    /\ RLt(gcp.max_t, RDiv(tr_radius, gcp.grad_norm))
    /\ gcp.candidate # Unclipped
    /\ RGt(gcp.model_delta, RInt(0))

\* Squared Euclidean distance of two points with rational coordinates.
RSqDist(a, b) == dot(PointSub(a, b), PointSub(a, b))

\* C11: for var_lower <= start_point <= var_upper, a non-zero gradient and
\* radius > 0, the Euclidean distance from the start point to the candidate
\* is at most tr_radius, whether the radius or a bound limits the step and
\* whether or not clipping changes a coordinate.
C11_WithinRadius ==
    (pc = "candidate" /\ GradNonZero /\ StartInBox /\ RGt(tr_radius, RInt(0))) =>
        RLe(RSqDist(start_point, gcp.candidate), RMul(tr_radius, tr_radius))

\* C11 witness: the radius limits the step, the clip changes a coordinate
\* and the candidate differs from the start point.
C11_Witness ==
    /\ pc = "candidate"
    /\ GradNonZero
    /\ StartInBox
    /\ RGt(tr_radius, RInt(0))
    /\ gcp.max_t = RDiv(tr_radius, gcp.grad_norm)
    /\ gcp.candidate # Unclipped
    /\ gcp.candidate # start_point

\* C11, the other cases the claim names: the step is limited by a bound, and
\* the candidate lies exactly on the sphere of radius tr_radius.
C11_BoundLimited ==
    /\ pc = "candidate" /\ GradNonZero /\ StartInBox /\ RGt(tr_radius, RInt(0))
    /\ RLt(gcp.max_t, RDiv(tr_radius, gcp.grad_norm))
    /\ gcp.candidate # start_point

C11_OnSphere ==
    /\ pc = "candidate" /\ GradNonZero /\ StartInBox /\ RGt(tr_radius, RInt(0))
    /\ RSqDist(start_point, gcp.candidate) = RMul(tr_radius, tr_radius)

\* C12: with a zero gradient get_candidate_point reports an error and
\* returns no candidate; no nan or infinite step length or coordinate is
\* produced.
C12_ZeroGradientReported ==
    (pc = "candidate" /\ ~GradNonZero) =>
        /\ gcp.kind = "raised"
        /\ gcp.max_t.cls \notin {"inf", "-inf", "nan"}
        /\ \A j \in 1..n : gcp.candidate[j] # NaN

-----------------------------------------------------------------------------
(* Properties of get_integer_candidate                                      *)

IsIntegral(x) == x.den = 1

\* z is the largest integer <= x.
IsFloorOf(z, x) == IsIntegral(z) /\ RLe(z, x) /\ RLt(x, RAdd(z, RInt(1)))

\* z is the smallest integer >= x.
IsCeilOf(z, x) == IsIntegral(z) /\ RGe(z, x) /\ RGt(x, RSub(z, RInt(1)))

\* C13: get_integer_candidate returns (rounded, delta) with rounded[i] the
\* floor of point[i] if h[i] >= 0 and its ceiling if h[i] < 0 for i in
\* integer_vars, rounded[i] = point[i] for the other i, and
\* delta = h.(point - rounded); the array point is left as it was.
C13_RoundedByGradientSign ==
    pc = "rounded" =>
        /\ \A i \in integer_vars :
              IF h[i].num >= 0 THEN IsFloorOf(gic.rounded[i], gic.arg[i])
                               ELSE IsCeilOf(gic.rounded[i], gic.arg[i])
        /\ \A i \in (1..n) \ integer_vars : gic.rounded[i] = gic.arg[i]
        /\ gic.model_delta = RSub(dot(h, gic.arg), dot(h, gic.rounded))
        /\ point = gic.arg

\* C13 witness: a fractional integer coordinate with a negative gradient
\* component, rounded up, next to a fractional coordinate that is not an
\* integer variable, and a delta that is not zero.
C13_Witness ==
    /\ pc = "rounded"
    /\ n = 2
    /\ \E i \in integer_vars : h[i].num < 0 /\ gic.rounded[i] # gic.arg[i]
    /\ \E i \in (1..n) \ integer_vars : ~IsIntegral(gic.arg[i])
    /\ gic.model_delta.num # 0

\* A fractional integer coordinate with a zero gradient component is
\* rounded down.
C13_ZeroGradientFloor ==
    /\ pc = "rounded"
    /\ \E i \in integer_vars : h[i].num = 0 /\ RLt(gic.rounded[i], gic.arg[i])

PointInBox(q) == \A i \in 1..n : RLe(var_lower[i], q[i]) /\ RLe(q[i], var_upper[i])

\* C14 as claimed: if the point handed to get_integer_candidate lies within
\* [var_lower, var_upper], so does the rounded point.
C14_RoundingKeepsBounds ==
    (pc = "rounded" /\ PointInBox(gic.arg)) => PointInBox(gic.rounded)

\* C14 as amended: if the point lies within [var_lower, var_upper] and the
\* bounds of every integer variable are integers, so does the rounded point.
C14_RoundingKeepsIntegerBounds ==
    (/\ pc = "rounded"
     /\ PointInBox(gic.arg)
     /\ \A i \in integer_vars : IsIntegral(var_lower[i]) /\ IsIntegral(var_upper[i]))
        => PointInBox(gic.rounded)

\* C14 witness: integer bounds on the integer variables, a fractional bound
\* on another coordinate, and an integer coordinate that rounding moves.
C14_Witness ==
    /\ pc = "rounded"
    /\ PointInBox(gic.arg)
    /\ \A i \in integer_vars : IsIntegral(var_lower[i]) /\ IsIntegral(var_upper[i])
    /\ \E i \in integer_vars : gic.rounded[i] # gic.arg[i]
    /\ \E i \in (1..n) \ integer_vars : ~IsIntegral(var_lower[i]) /\ gic.arg[i] = var_lower[i]

-----------------------------------------------------------------------------
(* Properties of get_linear_model                                           *)

\* Determinant of a square integer matrix, by expansion along the first row.
RECURSIVE Det(_)
Det(M) ==
    IF Len(M) = 1 THEN M[1][1]
    ELSE SumTo([j \in 1..Len(M) |->
                   (IF j % 2 = 1 THEN 1 ELSE -1) * M[1][j] *
                   Det([r \in 1..(Len(M) - 1) |->
                          [c \in 1..(Len(M) - 1) |->
                              M[r + 1][IF c < j THEN c ELSE c + 1]]])],
               Len(M))

\* The node positions of the model set, each with a trailing 1, have n + 1
\* linearly independent rows.
FullColumnRank ==
    \E rows \in [1..(n + 1) -> 1..Len(model_set)] :
        Det([r \in 1..(n + 1) |->
               [c \in 1..(n + 1) |->
                   IF c <= n THEN node_pos[model_set[rows[r]]][c] ELSE 1]]) # 0

\* Every node value is h . x + b.
ExactData ==
    \A j \in 1..k :
        node_val[j] = RAdd(dot(h, [i \in 1..n |-> RInt(node_pos[j][i])]), intercept)

\* C15: when np.linalg.lstsq fails, the exception that reaches the caller of
\* get_linear_model is numpy.linalg.LinAlgError, and nothing is returned.
C15_LinAlgErrorReachesCaller ==
    (pc = "fitted" /\ lstsq_fails) =>
        (glm.raised = "LinAlgError" /\ ~glm.returned)

\* C16: if every node value is h . x + b, the model set is the full node set
\* and the positions with a trailing 1 have full column rank n + 1, then
\* get_linear_model returns (h, b).
C16_LinearModelRoundTrip ==
    (/\ pc = "fitted"
     /\ ~lstsq_fails
     /\ ExactData
     /\ model_set = arange(k)
     /\ FullColumnRank)
        => (glm.returned /\ glm.h = h /\ glm.b = intercept)

\* C16 witness: three nodes in the plane that are not on a line, more nodes
\* than coefficients, a slope with different components, fitted exactly.
C16_Witness ==
    /\ pc = "fitted"
    /\ ~lstsq_fails
    /\ ExactData
    /\ model_set = arange(k)
    /\ FullColumnRank
    /\ n = 2
    /\ k = 4
    /\ h[1] # h[2]
    /\ h[1] # intercept
    /\ glm.returned
    /\ glm.h = h

\* Without full column rank exact data need not give the coefficients back.
C16_RankDeficientDiffers ==
    /\ pc = "fitted"
    /\ ~lstsq_fails
    /\ ExactData
    /\ model_set = arange(k)
    /\ ~FullColumnRank
    /\ glm.h # h

\* The solution returned is a least-squares solution: the residual is
\* orthogonal to every column of the matrix.
FitResidualOrthogonal ==
    (pc = "fitted" /\ glm.returned) =>
        \E A \in {lstsq_mat(node_pos, model_set)} :
            \E res \in {[r \in 1..Len(A) |->
                           RSub(RAdd(dot(glm.h, [c \in 1..n |-> A[r][c]]), glm.b),
                                node_val[model_set[r]])]} :
                \A c \in 1..(n + 1) : dot(Columns(A)[c], res).num = 0

-----------------------------------------------------------------------------
(* Monotonicity of update_trust_region_radius                               *)

\* The last call was update_trust_region_radius on a radius it accepts, with
\* model_obj_diff # 0.
UpdatedAccepted == UpdatedNonZero /\ call.raised = "none"

\* The ratio is strictly above both the enlarge and the shrink threshold.
AboveEnlarge ==
    /\ RGt(CallRatio, settings.tr_acceptable_decrease_enlarge)
    /\ RGt(CallRatio, settings.tr_acceptable_decrease_shrink)

\* C17 as claimed: for every radius update_trust_region_radius accepts and
\* every model_obj_diff # 0, a ratio strictly below the shrink threshold gives
\* a strictly smaller radius, and a ratio strictly above the enlarge (and the
\* shrink) threshold a strictly greater one.
C17_RadiusMonotone ==
    UpdatedAccepted =>
        /\ RLt(CallRatio, settings.tr_acceptable_decrease_shrink)
              => RLt(call.new_radius, call.tr_radius)
        /\ AboveEnlarge => RGt(call.new_radius, call.tr_radius)

\* C17 as amended: the same for every radius > 0.
C17_PositiveRadiusMonotone ==
    (UpdatedAccepted /\ RGt(call.tr_radius, RInt(0))) =>
        /\ RLt(CallRatio, settings.tr_acceptable_decrease_shrink)
              => RLt(call.new_radius, call.tr_radius)
        /\ AboveEnlarge => RGt(call.new_radius, call.tr_radius)

\* C17 witness: a positive radius and a ratio above both thresholds; the
\* radius returned is greater.
C17_Witness ==
    /\ UpdatedAccepted
    /\ RGt(call.tr_radius, RInt(0))
    /\ AboveEnlarge
    /\ RGt(tr_radius, call.tr_radius)

\* A positive radius and a ratio below the shrink threshold; the radius
\* returned is smaller.
C17_ShrinkWitness ==
    /\ UpdatedAccepted
    /\ RGt(call.tr_radius, RInt(0))
    /\ RLt(CallRatio, settings.tr_acceptable_decrease_shrink)
    /\ RLt(tr_radius, call.tr_radius)

\* A negative radius is rejected by the assertion.
C17_NegativeRejected ==
    /\ pc = "updated"
    /\ call.raised = "AssertionError"

====
